---- MODULE Spec2Model ----
(***************************************************************************)
(* Model of the TzKT transaction reporter (src/app.py, src/tzkt.py):       *)
(*   - fetch_transactions: the paginated, rate-limited, retrying fetch     *)
(*     loop, run against a provider that holds a finite list of records;   *)
(*   - process_data: normalisation of raw records into rows and metrics.   *)
(* Times are in milliseconds.  A timestamp string is a fixed-width string  *)
(* "<day>T<hour>Z", written as the tuple <<day, hour>>; Python compares    *)
(* such strings lexicographically.  Print statements are left out.         *)
(***************************************************************************)
EXTENDS Integers, Sequences, FiniteSets, TLC

(* ------------------------------ constants ------------------------------ *)
REQUESTS_PER_SECOND == 5
DELAY_BETWEEN_REQUESTS == 1000 \div REQUESTS_PER_SECOND
MAX_RETRIES == 3
RETRY_DELAY == 5

(* ------------------------------- bounds -------------------------------- *)
\* page size requested from the provider (1000 in the source, scaled down)
limit == 2
\* largest number of records the provider holds
MaxStore == 3
\* largest number of raw records handed to process_data
MaxRaw == 2
\* addresses one request selects, and records fetch_transactions returns for
\* one address, in the request specifications
MaxSelected == 2
MaxFetched == 2

(* --------------------------- values of fields -------------------------- *)
\* Python None for a missing 'timestamp', a missing 'id', an unset last_id
NoTimestamp == <<-1>>
NoId == -1
\* a request that carries no lastId parameter
NoLastId == -1

\* a present string that pd.to_datetime cannot parse
BadTimestamp == <<99, 99>>
\* a missing 'amount', a missing sender/target address
NoAmount == -1
NoAddress == "None"

\* the well-formed timestamp strings of the model: two days, two hours
TsStrings == {<<d, h>> : d \in 0..1, h \in 0..1}

\* the empty string, and the value NaT that pd.to_datetime gives for it (as
\* for 'NaT' and 'nan') without raising
EmptyTimestamp == <<>>
NaT == -2

\* pd.to_datetime: the instant (in hours) a timestamp string denotes, NaT for
\* the empty string, -1 when it raises
to_datetime(str) ==
    IF str = EmptyTimestamp THEN NaT
    ELSE IF str \in TsStrings THEN str[1] * 24 + str[2] ELSE -1

\* str.__lt__ : lexicographic order of two strings
RECURSIVE StrLess(_, _)
StrLess(a, b) ==
    IF b = <<>> THEN FALSE
    ELSE IF a = <<>> THEN TRUE
    ELSE IF a[1] # b[1] THEN a[1] < b[1]
    ELSE StrLess(Tail(a), Tail(b))

\* the window of the call: start_date_iso (inclusive), end_date_iso (exclusive)
start_date_iso == <<0, 1>>
end_date_iso == <<1, 0>>

\* A raw operation as served by the provider.  key is the provider's own
\* record id (the sort key of the collection); id and timestamp are the
\* fields of the JSON object, each possibly absent.
RawOps(k) == [key : {k}, id : {k, NoId},
              timestamp : {<<0, 0>>, <<0, 1>>, <<1, 0>>, NoTimestamp}]

RECURSIVE StoresFrom(_, _)
StoresFrom(k, n) ==
    IF n = 0 THEN {<<>>}
    ELSE {<<r>> \o s : r \in RawOps(k), s \in StoresFrom(k - 1, n - 1)}

\* the collections the provider may hold: descending consecutive keys,
\* the smallest key being 0 or 1
Stores == UNION {StoresFrom(base + n - 1, n) : base \in 0..1, n \in 0..MaxStore}

VARIABLES
    store,             \* the provider's records, in descending key order
    pc,                \* position in fetch_transactions
    all_transactions,
    last_id,
    page_count,
    total_retries,
    retry_count,
    success,
    transactions,      \* the last parsed response body
    requests,          \* history: the lastId parameter of every request sent
    served,            \* history: the body of every 200 response
    outcome,           \* history: how the most recent response was handled
    slept,             \* history: ms slept while handling the most recent response
    all429,            \* history: every response so far was a 429
    raised,            \* history: some page raised while being processed
    completed,         \* history: the last page processed to its end, <<>> if none
    pd_pc,             \* position of the process_data call
    pd_transactions,   \* process_data: argument transactions
    pd_target_address, \* process_data: argument target_address
    pd_df,             \* process_data: returned table
    pd_metrics,        \* process_data: returned metrics
    pd_summary,        \* calculate_daily_summary(pd_df, [pd_target_address])
    pd_addresses,      \* calculate_daily_summary called by itself: argument addresses
    ledger,            \* provider: what fetch_transactions returns per address
    rq_pc,             \* per request: position in handle_results / download_csv
    rq_form,           \* per request: entry point, addresses and dates sent
    rq_addresses_to_fetch, \* per request: addresses_to_fetch
    rq_fetched,        \* per request: the addresses fetch_transactions was called for
    rq_all_processed_dfs,  \* per request: all_processed_dfs
    rq_all_metrics,    \* per request: all_metrics (dict keyed by address)
    rq_response        \* per request: what the handler returned

fetch_vars == <<store, pc, all_transactions, last_id, page_count, total_retries,
                retry_count, success, transactions, requests, served, outcome,
                slept, all429, raised, completed>>
pd_vars == <<pd_pc, pd_transactions, pd_target_address, pd_df, pd_metrics,
            pd_summary, pd_addresses>>
rq_vars == <<ledger, rq_pc, rq_form, rq_addresses_to_fetch, rq_fetched,
            rq_all_processed_dfs, rq_all_metrics, rq_response>>
vars == <<fetch_vars, pd_vars, rq_vars>>

Last(s) == s[Len(s)]

(* ------------------------------ provider ------------------------------- *)
RECURSIVE Take(_, _)
Take(s, n) == IF n = 0 \/ s = <<>> THEN <<>> ELSE <<Head(s)>> \o Take(Tail(s), n - 1)

\* GET accounts/{address}/operations?...&limit=..&sort.desc=id[&lastId=..]
ProviderPage(cursor) ==
    LET older(r) == cursor = NoLastId \/ r.key < cursor
    IN  Take(SelectSeq(store, older), limit)

\* the pages of the collection, as a client draining it sees them
RECURSIVE Pages(_)
Pages(s) == IF s = <<>> THEN <<>>
            ELSE <<Take(s, limit)>> \o Pages(SubSeq(s, Len(Take(s, limit)) + 1, Len(s)))

\* how many of the requests sent so far carried the cursor c
Asked(c) == Cardinality({i \in 1..Len(requests) : requests[i] = c})

(* ------------------------- fetch_transactions -------------------------- *)
\* "if last_id: params['lastId'] = last_id"
LastIdParam(id) == IF id # NoId /\ id # 0 THEN id ELSE NoLastId

\* mutant: the upper bound of the window taken as inclusive
InRange_EndInclusive(tx) == /\ ~StrLess(tx.timestamp, start_date_iso)
                            /\ ~StrLess(end_date_iso, tx.timestamp)

\* "tx_timestamp >= start_date_iso and tx_timestamp < end_date_iso"
InRange(tx) == /\ ~StrLess(tx.timestamp, start_date_iso)
               /\ StrLess(tx.timestamp, end_date_iso)

\* index of the first record whose timestamp is None (the comparison raises
\* TypeError there), 0 when there is none
FirstUncomparable(page) ==
    LET bad == {i \in 1..Len(page) : page[i].timestamp = NoTimestamp}
    IN  IF bad = {} THEN 0 ELSE CHOOSE i \in bad : \A j \in bad : i <= j

Kept(page, n) == SelectSeq(SubSeq(page, 1, n), InRange)

\* process_data is not running
\* the two requests of the concurrency specification; handle_results and
\* download_csv keep all their state in locals, one copy per request
Requests == {1, 2}
Addresses == {"X", "F"}
NoMetrics == [trades |-> 0, volume_xtz |-> 0, earned_xtz |-> 0]
NoForm == [entry |-> "none", addresses |-> <<>>, dates |-> "ok"]
NoResponse == [status |-> "none", transactions |-> <<>>,
               overall_metrics |-> NoMetrics, daily_summary |-> <<>>]
EmptyLedger == [a \in Addresses |-> <<>>]

RqIdle ==
    /\ ledger = EmptyLedger
    /\ rq_pc = [r \in Requests |-> "idle"]
    /\ rq_form = [r \in Requests |-> NoForm]
    /\ rq_addresses_to_fetch = [r \in Requests |-> <<>>]
    /\ rq_fetched = [r \in Requests |-> <<>>]
    /\ rq_all_processed_dfs = [r \in Requests |-> <<>>]
    /\ rq_all_metrics = [r \in Requests |-> <<>>]
    /\ rq_response = [r \in Requests |-> NoResponse]

PdIdle ==
    /\ pd_pc = "idle"
    /\ pd_transactions = <<>>
    /\ pd_target_address = NoAddress
    /\ pd_df = <<>>
    /\ pd_metrics = [trades |-> 0, volume_xtz |-> 0, earned_xtz |-> 0]
    /\ pd_summary = <<>>
    /\ pd_addresses = <<>>

Init ==
    /\ PdIdle
    /\ RqIdle
    /\ store \in Stores
    /\ pc = "outer"
    /\ all_transactions = <<>>
    /\ last_id = NoId
    /\ page_count = 0
    /\ total_retries = 0
    /\ retry_count = 0
    /\ success = FALSE
    /\ transactions = <<>>
    /\ requests = <<>>
    /\ served = <<>>
    /\ outcome = "none"
    /\ slept = 0
    /\ all429 = TRUE
    /\ raised = FALSE
    /\ completed = <<>>

\* line 37-39: a new iteration of "while True"
BeginPage ==
    /\ pc = "outer"
    /\ retry_count' = 0
    /\ success' = FALSE
    /\ pc' = "inner"
    /\ UNCHANGED <<store, all_transactions, last_id, page_count, total_retries,
                   transactions, requests, served, outcome, slept, all429,
                   raised, completed,
                   pd_vars, rq_vars>>

\* line 41-56: the retry loop goes on and sends a request
SendRequest ==
    /\ pc = "inner"
    /\ ~success /\ retry_count < MAX_RETRIES
    \* the model stops following a call that asks for one page again and again
    /\ Asked(LastIdParam(last_id)) <= MAX_RETRIES
    /\ requests' = Append(requests, LastIdParam(last_id))
    /\ outcome' = "pending"
    /\ pc' = "wait"
    /\ UNCHANGED <<store, all_transactions, last_id, page_count, total_retries,
                   retry_count, success, transactions, served, slept,
                   all429, raised, completed,
                   pd_vars, rq_vars>>

\* line 41: the retry loop ends
LeaveRetryLoop ==
    /\ pc = "inner"
    /\ ~(~success /\ retry_count < MAX_RETRIES)
    /\ pc' = "check"
    /\ UNCHANGED <<store, all_transactions, last_id, page_count, total_retries,
                   retry_count, success, transactions, requests, served, outcome,
                   slept, all429, raised, completed,
                   pd_vars, rq_vars>>

\* mutant: a 429 is retried without counting the attempt
Status429_NoCount ==
    /\ pc = "wait"
    /\ total_retries' = total_retries + 1
    /\ slept' = RETRY_DELAY * 1000 * (retry_count + 1)
    /\ outcome' = "429"
    /\ pc' = "inner"
    /\ UNCHANGED <<store, all_transactions, last_id, page_count, success,
                   retry_count, transactions, requests, served, all429, raised,
                   completed, pd_vars, rq_vars>>

\* line 59-65: HTTP 429
Status429 ==
    /\ pc = "wait"
    /\ retry_count' = retry_count + 1
    /\ total_retries' = total_retries + 1
    /\ slept' = RETRY_DELAY * 1000 * retry_count'
    /\ outcome' = "429"
    /\ pc' = "inner"
    /\ UNCHANGED <<store, all_transactions, last_id, page_count, success,
                   transactions, requests, served, all429, raised, completed,
                   pd_vars, rq_vars>>

\* the "retry or give up" block the four other failure handlers share
RetryOrGiveUp(next) ==
    IF retry_count < MAX_RETRIES - 1
    THEN /\ retry_count' = retry_count + 1
         /\ total_retries' = total_retries + 1
         /\ slept' = RETRY_DELAY * 1000 * retry_count'
         /\ pc' = next
    ELSE /\ slept' = 0
         /\ pc' = "check"
         /\ UNCHANGED <<retry_count, total_retries>>

\* line 66-77: HTTP status >= 400 other than 429
StatusError ==
    /\ pc = "wait"
    /\ RetryOrGiveUp("inner")
    /\ outcome' = "error"
    /\ all429' = FALSE
    /\ UNCHANGED <<store, all_transactions, last_id, page_count, success,
                   transactions, requests, served, raised, completed,
                   pd_vars, rq_vars>>

\* line 106-116: requests.get raised (transport failure)
RequestException ==
    /\ pc = "wait"
    /\ RetryOrGiveUp("inner")
    /\ outcome' = "transport"
    /\ all429' = FALSE
    /\ UNCHANGED <<store, all_transactions, last_id, page_count, success,
                   transactions, requests, served, raised, completed,
                   pd_vars, rq_vars>>

\* line 80, 117-127: response.json() raised (malformed body)
JSONDecodeError ==
    /\ pc = "wait"
    /\ RetryOrGiveUp("inner")
    /\ outcome' = "badjson"
    /\ all429' = FALSE
    /\ UNCHANGED <<store, all_transactions, last_id, page_count, success,
                   transactions, requests, served, raised, completed,
                   pd_vars, rq_vars>>

\* line 80-85: a 200 response with an empty list
EmptyPage ==
    /\ pc = "wait"
    /\ ProviderPage(Last(requests)) = <<>>
    /\ transactions' = <<>>
    /\ served' = Append(served, <<>>)
    /\ success' = TRUE
    /\ outcome' = "empty"
    /\ slept' = 0
    /\ all429' = FALSE
    /\ pc' = "check"
    /\ UNCHANGED <<store, all_transactions, last_id, page_count, total_retries,
                   retry_count, requests, raised, completed,
                   pd_vars, rq_vars>>

\* mutant: the cursor is taken from the first record of the page
ProcessPage_CursorFromFirst ==
    LET page == ProviderPage(Last(requests)) IN
    /\ pc = "wait"
    /\ page # <<>>
    /\ FirstUncomparable(page) = 0
    /\ page[1].id # NoId
    /\ transactions' = page
    /\ served' = Append(served, page)
    /\ success' = TRUE
    /\ all_transactions' = all_transactions \o Kept(page, Len(page))
    /\ page_count' = page_count + 1
    /\ last_id' = page[1].id
    /\ completed' = page
    /\ slept' = DELAY_BETWEEN_REQUESTS
    /\ outcome' = "page"
    /\ all429' = FALSE
    /\ pc' = "inner"
    /\ UNCHANGED <<store, total_retries, retry_count, requests, raised,
                   pd_vars, rq_vars>>

\* line 80-104: a 200 response with records, processed to the end
ProcessPage ==
    LET page == ProviderPage(Last(requests)) IN
    /\ pc = "wait"
    /\ page # <<>>
    /\ FirstUncomparable(page) = 0
    /\ page[Len(page)].id # NoId
    /\ transactions' = page
    /\ served' = Append(served, page)
    /\ success' = TRUE
    /\ all_transactions' = all_transactions \o Kept(page, Len(page))
    /\ page_count' = page_count + 1
    /\ last_id' = page[Len(page)].id
    /\ completed' = page
    /\ slept' = DELAY_BETWEEN_REQUESTS
    /\ outcome' = "page"
    /\ all429' = FALSE
    /\ pc' = "inner"
    /\ UNCHANGED <<store, total_retries, retry_count, requests, raised,
                   pd_vars, rq_vars>>

\* line 80-101, 128-138: a 200 response with records, where processing raises
\* (TypeError at line 92 on a record without timestamp, KeyError at line 101
\* when the last record has no id); success is already True
UnexpectedError ==
    LET page == ProviderPage(Last(requests))
        j == FirstUncomparable(page)
    IN
    /\ pc = "wait"
    /\ page # <<>>
    /\ j # 0 \/ page[Len(page)].id = NoId
    /\ transactions' = page
    /\ served' = Append(served, page)
    /\ success' = TRUE
    /\ IF j # 0
       THEN /\ all_transactions' = all_transactions \o Kept(page, j - 1)
            /\ UNCHANGED page_count
       ELSE /\ all_transactions' = all_transactions \o Kept(page, Len(page))
            /\ page_count' = page_count + 1
    /\ RetryOrGiveUp("inner")
    /\ outcome' = "unexpected"
    /\ all429' = FALSE
    /\ raised' = TRUE
    /\ UNCHANGED <<store, last_id, requests, completed,
                   pd_vars, rq_vars>>

\* mutant: the outer loop is left on an empty page only
EndPage_IgnoresSuccess ==
    /\ pc = "check"
    /\ pc' = IF transactions = <<>> THEN "done" ELSE "outer"
    /\ UNCHANGED <<store, all_transactions, last_id, page_count, total_retries,
                   retry_count, success, transactions, requests, served, outcome,
                   slept, all429, raised, completed, pd_vars, rq_vars>>

\* line 141-145: leave the outer loop, or go round it again
EndPage ==
    /\ pc = "check"
    /\ pc' = IF ~success \/ transactions = <<>> THEN "done" ELSE "outer"
    /\ UNCHANGED <<store, all_transactions, last_id, page_count, total_retries,
                   retry_count, success, transactions, requests, served, outcome,
                   slept, all429, raised, completed,
                   pd_vars, rq_vars>>

Next ==
    \/ BeginPage
    \/ SendRequest
    \/ LeaveRetryLoop
    \/ Status429
    \/ StatusError
    \/ RequestException
    \/ JSONDecodeError
    \/ EmptyPage
    \/ ProcessPage
    \/ UnexpectedError
    \/ EndPage

Spec == Init /\ [][Next]_vars

(* --------------------- properties of fetch_transactions ---------------- *)
\* the instant a timestamp string denotes lies in [start, end)
InWindow(tx) ==
    /\ tx.timestamp \in TsStrings
    /\ to_datetime(start_date_iso) <= to_datetime(tx.timestamp)
    /\ to_datetime(tx.timestamp) < to_datetime(end_date_iso)

RECURSIVE Flatten(_)
Flatten(pages) == IF pages = <<>> THEN <<>> ELSE Head(pages) \o Flatten(Tail(pages))

\* every request sent so far was answered 200 with a parsable body
EveryRequestSucceeded == Len(served) = Len(requests)

\* C1: fetch_transactions never blocks: every iteration of the outer loop
\* asks for a page it has not asked for before (the previous one succeeded
\* and moved the cursor on), or the loop is left; as the provider holds
\* finitely many records, no page is requested forever and the call returns.
C1_EveryIterationAsksNewPage ==
    pc = "outer" =>
        \A i \in 1..Len(requests) : requests[i] # LastIdParam(last_id)

\* C2: when every request succeeds and the provider serves its non-empty
\* pages p1..pn and then an empty page, the call sends exactly n+1 requests,
\* asks for nothing more, and holds exactly the in-window records of
\* p1 ++ ... ++ pn, in provider order, each once.
C2_DrainedExactly ==
    /\ (EveryRequestSucceeded /\ served = Append(Pages(store), <<>>)) =>
           /\ pc \in {"check", "done"}
           /\ all_transactions = SelectSeq(store, InWindow)
    /\ (EveryRequestSucceeded /\ pc = "done") =>
           /\ served = Append(Pages(store), <<>>)
           /\ Len(requests) = Len(Pages(store)) + 1
           /\ all_transactions = SelectSeq(store, InWindow)

C2_Witness ==
    /\ pc = "done"
    /\ EveryRequestSucceeded
    /\ Len(Pages(store)) >= 2
    /\ all_transactions # <<>>
    /\ Len(all_transactions) < Len(store)

\* C3: when every response is HTTP 429, the call sends exactly MAX_RETRIES
\* requests (all for the first page), then returns an empty list.
C3_Always429 ==
    all429 =>
        /\ Len(requests) <= MAX_RETRIES
        /\ \A i \in 1..Len(requests) : requests[i] = NoLastId
        /\ all_transactions = <<>>
        /\ pc = "done" => Len(requests) = MAX_RETRIES

C3_Witness == pc = "done" /\ all429 /\ store # <<>>

\* C4: when the pages fetched so far were processed to their end and the
\* next page has failed on every attempt (429, other status >= 400, transport
\* failure, malformed body), the call returns at once, sending no further
\* request, and returns exactly the in-window records of the fetched pages.
C4_PartialOnAbandon ==
    [][(pc = "check" /\ ~success /\ ~raised) =>
          /\ pc' = "done"
          /\ requests' = requests
          /\ all_transactions' = SelectSeq(Flatten(served), InWindow)]_vars

C4_Witness ==
    /\ pc = "done"
    /\ ~success /\ ~raised
    /\ Len(served) >= 1
    /\ all_transactions # <<>>
    /\ Len(all_transactions) < Len(Flatten(served))

\* C5: the first request carries no lastId, every later request carries the
\* id of the last record of the most recent page fetched, whatever integer
\* that id is, and the retries of a page carry the cursor of its first attempt.
C5_CursorIsLastId ==
    pc = "wait" =>
        Last(requests) = IF completed = <<>> THEN NoLastId ELSE Last(completed).id

\* C6: every record collected lies in the window [start, end), and the cursor
\* is the id of the last record of the unfiltered page, in the window or not.
C6_WindowFilter ==
    /\ \A i \in 1..Len(all_transactions) : InWindow(all_transactions[i])
    /\ completed # <<>> => last_id = Last(completed).id

C6_Witness ==
    /\ pc = "done"
    /\ completed # <<>>
    /\ ~InWindow(Last(completed))
    /\ all_transactions # <<>>

\* C7: between two consecutive requests of one call a delay elapses: no
\* request but the first is sent without a sleep since the previous response.
C7_SleepBetweenRequests ==
    (pc = "wait" /\ Len(requests) > 1) => slept > 0

(* ----------------------------- process_data ---------------------------- *)
\* the addresses a report may be asked for, and the other parties
Origins == {"X"}
Parties == Origins \cup {"A"}

\* timestamp strings handed to process_data: absent, unparsable, or the
\* first hour of a day
PdTimestamps == {NoTimestamp, BadTimestamp, EmptyTimestamp, <<0, 0>>, <<1, 0>>}

\* A raw operation as process_data reads it: a NoXxx value stands for the
\* absent key.  A record that is skipped for its timestamp has no other field
\* that matters, so it comes in one shape: an amount sent to the origin.
RawRecords ==
    {tx \in [timestamp : PdTimestamps,
             amount : {NoAmount, 2},
             sender : Parties \cup {NoAddress},
             target : Parties \cup {NoAddress}] :
        tx.timestamp \in {NoTimestamp, BadTimestamp} =>
            (tx.amount = 2 /\ tx.sender = "A" /\ tx.target \in Origins)}

\* mutant: the outgoing test comes first
Direction_OutFirst(sender, target, target_address) ==
    LET is_outgoing == sender = target_address
        is_incoming == target = target_address
    IN  IF is_outgoing THEN "OUT"
        ELSE IF is_incoming THEN "IN"
        ELSE "UNKNOWN"

\* mutant: sender and target exchanged in the two tests
Direction_Swapped(sender, target, target_address) ==
    LET is_outgoing == target = target_address
        is_incoming == sender = target_address
    IN  IF is_incoming THEN "IN"
        ELSE IF is_outgoing THEN "OUT"
        ELSE "UNKNOWN"

\* line 176-188: the direction of an operation relative to target_address
Direction(sender, target, target_address) ==
    LET is_outgoing == sender = target_address
        is_incoming == target = target_address
    IN  IF is_incoming THEN "IN"
        ELSE IF is_outgoing THEN "OUT"
        ELSE "UNKNOWN"

\* mutant: every kept amount is counted as earned
ProcessRecord_EarnsAll(acc, tx, target_address) ==
    LET amount_mutez == IF tx.amount = NoAmount THEN 0 ELSE tx.amount
        sender == tx.sender
        target == tx.target
        timestamp_str == tx.timestamp
        is_incoming == target = target_address
    IN  IF timestamp_str = NoTimestamp THEN acc
        ELSE IF to_datetime(timestamp_str) = -1 THEN acc
        ELSE [processed_data |-> Append(acc.processed_data,
                  [Address |-> target_address,
                   Timestamp |-> to_datetime(timestamp_str),
                   Direction |-> Direction(sender, target, target_address),
                   From |-> IF sender = NoAddress THEN "N/A" ELSE sender,
                   To |-> IF target = NoAddress THEN "N/A" ELSE target,
                   AmountXTZ |-> IF amount_mutez # 0 THEN amount_mutez ELSE 0,
                   AmountMutez |-> amount_mutez]),
              trade_count |-> acc.trade_count + 1,
              total_volume_mutez |-> acc.total_volume_mutez + amount_mutez,
              total_earned_mutez |-> acc.total_earned_mutez + amount_mutez]

\* line 158-199: one iteration of the loop over the raw records.  Amounts in
\* XTZ are written in millionths of a tez, so x / 1_000_000 keeps its digits.
ProcessRecord(acc, tx, target_address) ==
    LET amount_mutez == IF tx.amount = NoAmount THEN 0 ELSE tx.amount
        sender == tx.sender
        target == tx.target
        timestamp_str == tx.timestamp
        is_incoming == target = target_address
    IN  IF timestamp_str = NoTimestamp THEN acc
        ELSE IF to_datetime(timestamp_str) = -1 THEN acc
        ELSE [processed_data |-> Append(acc.processed_data,
                  [Address |-> target_address,
                   Timestamp |-> to_datetime(timestamp_str),
                   Direction |-> Direction(sender, target, target_address),
                   From |-> IF sender = NoAddress THEN "N/A" ELSE sender,
                   To |-> IF target = NoAddress THEN "N/A" ELSE target,
                   AmountXTZ |-> IF amount_mutez # 0 THEN amount_mutez ELSE 0,
                   AmountMutez |-> amount_mutez]),
              trade_count |-> acc.trade_count + 1,
              total_volume_mutez |-> acc.total_volume_mutez + amount_mutez,
              total_earned_mutez |-> IF is_incoming
                                     THEN acc.total_earned_mutez + amount_mutez
                                     ELSE acc.total_earned_mutez]

\* line 153-199: the loop
RECURSIVE ProcessLoop(_, _, _)
ProcessLoop(acc, txs, target_address) ==
    IF txs = <<>> THEN acc
    ELSE ProcessLoop(ProcessRecord(acc, Head(txs), target_address), Tail(txs),
                     target_address)

\* line 203: df.sort_values(by="Timestamp"); the default sort is not stable,
\* so rows with equal timestamps may come out in any order; rows whose
\* Timestamp is NaT come last
SortedByTimestamp(rows) ==
    LET n == Len(rows)
        perms == {p \in [1..n -> 1..n] : \A i, j \in 1..n : i # j => p[i] # p[j]}
        before(r1, r2) == \/ r2.Timestamp = NaT
                          \/ r1.Timestamp # NaT /\ r1.Timestamp <= r2.Timestamp
    IN  {[i \in 1..n |-> rows[p[i]]] : p \in
            {q \in perms : \A i, j \in 1..n :
                i < j => before(rows[q[i]], rows[q[j]])}}

InitProcess ==
    /\ RqIdle
    /\ store = <<>>
    /\ pc = "idle"
    /\ all_transactions = <<>>
    /\ last_id = NoId
    /\ page_count = 0
    /\ total_retries = 0
    /\ retry_count = 0
    /\ success = FALSE
    /\ transactions = <<>>
    /\ requests = <<>>
    /\ served = <<>>
    /\ outcome = "none"
    /\ slept = 0
    /\ all429 = TRUE
    /\ raised = FALSE
    /\ completed = <<>>
    /\ pd_pc = "call"
    /\ \E k \in 0..MaxRaw : pd_transactions \in [1..k -> RawRecords]
    /\ pd_target_address \in Origins
    /\ pd_df = <<>>
    /\ pd_metrics = [trades |-> 0, volume_xtz |-> 0, earned_xtz |-> 0]
    /\ pd_summary = <<>>
    /\ pd_addresses = <<>>

\* line 148-210: process_data(transactions, target_address): the pairs of
\* table and metrics it can return
process_data(txs, target_address) ==
    IF txs = <<>>
    THEN {[df |-> <<>>, metrics |-> NoMetrics]}
    ELSE LET acc == ProcessLoop([processed_data |-> <<>>, trade_count |-> 0,
                                 total_volume_mutez |-> 0,
                                 total_earned_mutez |-> 0],
                                txs, target_address)
         IN  {[df |-> sorted,
               metrics |-> [trades |-> acc.trade_count,
                            volume_xtz |-> acc.total_volume_mutez,
                            earned_xtz |-> acc.total_earned_mutez]] :
                 sorted \in SortedByTimestamp(acc.processed_data)}

ProcessData ==
    /\ pd_pc = "call"
    /\ pd_pc' = "done"
    /\ \E out \in process_data(pd_transactions, pd_target_address) :
          /\ pd_df' = out.df
          /\ pd_metrics' = out.metrics
    /\ UNCHANGED <<fetch_vars, rq_vars, pd_transactions, pd_target_address, pd_summary,
                   pd_addresses>>

(* ------------------------ calculate_daily_summary ---------------------- *)
\* line 237: the marketplace-fee address ('tz1cY5...'); "X" stands for a
\* contract address ('KT1...'), which sorts before it as a string
mp_fees_address == "F"
AddressOrder == <<"X", "F">>

\* the labels 'TOTAL' and 'GRAND TOTAL' that the total rows carry in the Date
\* column, and the blank address of the grand total
TOTAL == -1
GRAND_TOTAL == -2
BlankAddress == ""

RECURSIVE Sum(_)
Sum(xs) == IF xs = <<>> THEN 0 ELSE Head(xs) + Sum(Tail(xs))

Column(rows, c) == [i \in 1..Len(rows) |-> rows[i][c]]

\* the elements of a set of integers in ascending order (groupby sorts its keys)
RECURSIVE Ascending(_)
Ascending(S) ==
    IF S = {} THEN <<>>
    ELSE LET m == CHOOSE x \in S : \A y \in S : x <= y
         IN  <<m>> \o Ascending(S \ {m})

\* line 225: df_copy['Date'] = df_copy['Timestamp'].dt.date
DateOf(row) == row.Timestamp \div 24

sum_incoming_AnyDirection(x) == Sum(Column(x, "AmountXTZ"))

sum_incoming_FirstOnly(x) ==
    LET incoming(r) == r.Direction = "IN"
        subset == SelectSeq(x, incoming)
    IN  IF subset = <<>> THEN 0 ELSE Head(subset).AmountXTZ

\* line 229-231
sum_incoming(x) ==
    LET incoming(r) == r.Direction = "IN"
    IN  Sum(Column(SelectSeq(x, incoming), "AmountXTZ"))

\* line 233-235
sum_outgoing(x) ==
    LET outgoing(r) == r.Direction = "OUT"
    IN  Sum(Column(SelectSeq(x, outgoing), "AmountXTZ"))

\* x / 0.03 rounded to 6 digits, for x a whole number of millionths: the
\* nearest integer to 100 x / 3 (never a tie)
DivideByFee(x) == (200 * x + 3) \div 6

\* the rows of df_copy of one date, of one date and address, of one address
OnDate(df, d) == LET on(r) == DateOf(r) = d IN SelectSeq(df, on)
OfAddress(df, a) == LET of(r) == r.Address = a IN SelectSeq(df, of)

\* mutant: the fee address anywhere in the list selects the fee mode
is_mp_fees_only_selected_Any(addresses) ==
    \E i \in 1..Len(addresses) : addresses[i] = mp_fees_address

\* line 238
is_mp_fees_only_selected(addresses) ==
    addresses # <<>> /\ Len(addresses) = 1 /\ addresses[1] = mp_fees_address

\* line 242-263: fee-derived-volume mode
FeeSummary(df) ==
    LET dates == Ascending({DateOf(df[i]) : i \in 1..Len(df)})
        day(d) == LET cut == sum_incoming(OnDate(df, d))
                  IN  [Date |-> d,
                       Transactions |-> Len(OnDate(df, d)),
                       Skurpy_Cut |-> cut,
                       Total_Volume |-> DivideByFee(cut)]
        daily_summary == [i \in 1..Len(dates) |-> day(dates[i])]
        totals == [Date |-> TOTAL,
                   Transactions |-> Sum(Column(daily_summary, "Transactions")),
                   Skurpy_Cut |-> Sum(Column(daily_summary, "Skurpy_Cut")),
                   Total_Volume |-> Sum(Column(daily_summary, "Total_Volume"))]
    IN  Append(daily_summary, totals)

\* line 327-349: standard single-address mode
StandardSummary(df) ==
    LET dates == Ascending({DateOf(df[i]) : i \in 1..Len(df)})
        day(d) == LET g == OnDate(df, d)
                  IN  [Date |-> d,
                       Transactions |-> Len(g),
                       XTZ_Received |-> sum_incoming(g),
                       XTZ_Sent |-> sum_outgoing(g),
                       Net_XTZ_Change |-> sum_incoming(g) - sum_outgoing(g)]
        daily_summary == [i \in 1..Len(dates) |-> day(dates[i])]
        totals == [Date |-> TOTAL,
                   Transactions |-> Sum(Column(daily_summary, "Transactions")),
                   XTZ_Received |-> Sum(Column(daily_summary, "XTZ_Received")),
                   XTZ_Sent |-> Sum(Column(daily_summary, "XTZ_Sent")),
                   Net_XTZ_Change |-> Sum(Column(daily_summary, "XTZ_Received"))
                                      - Sum(Column(daily_summary, "XTZ_Sent"))]
    IN  Append(daily_summary, totals)

\* mutant: the totals come before the day rows
ConcatSummary_TotalsFirst(daily_summary, address_totals, grand_total_df) ==
    address_totals \o grand_total_df \o daily_summary

\* line 322-323: pd.concat([daily_summary, address_totals, grand_total_df])
ConcatSummary(daily_summary, address_totals, grand_total_df) ==
    daily_summary \o address_totals \o grand_total_df

\* mutant: every known address is a group
PresentAddresses_All(df) == AddressOrder

\* line 283-286: the keys of groupby('Address'): the addresses that have a
\* row, in string order
PresentAddresses(df) ==
    SelectSeq(AddressOrder, LAMBDA a : \E i \in 1..Len(df) : df[i].Address = a)

\* line 267-323: multi-address mode.  grand_total_metrics is a frame indexed
\* by 'Transactions', 'XTZ_Received', 'XTZ_Sent' whose columns are 'Hash' and
\* 'Amount (XTZ)', so each .get(<row label>, default) at line 301-303 finds no
\* such column and returns its default, 0.
MultiSummary(df) ==
    LET dates == Ascending({DateOf(df[i]) : i \in 1..Len(df)})
        present == PresentAddresses(df)
        row(label, a, g) == [Date |-> label,
                             Address |-> a,
                             Transactions |-> Len(g),
                             XTZ_Received |-> sum_incoming(g),
                             XTZ_Sent |-> sum_outgoing(g),
                             Net_XTZ_Change |-> sum_incoming(g) - sum_outgoing(g)]
        ofDay(d) == LET here == SelectSeq(present,
                                   LAMBDA a : OfAddress(OnDate(df, d), a) # <<>>)
                    IN  [i \in 1..Len(here) |->
                            row(d, here[i], OfAddress(OnDate(df, d), here[i]))]
        RECURSIVE days(_)
        days(ds) == IF ds = <<>> THEN <<>> ELSE ofDay(Head(ds)) \o days(Tail(ds))
        address_totals == [i \in 1..Len(present) |->
                              row(TOTAL, present[i], OfAddress(df, present[i]))]
        total_transactions == 0
        total_received == 0
        total_sent == 0
        grand_total_row == [Date |-> GRAND_TOTAL,
                            Address |-> BlankAddress,
                            Transactions |-> total_transactions,
                            XTZ_Received |-> total_received,
                            XTZ_Sent |-> total_sent,
                            Net_XTZ_Change |-> total_received - total_sent]
    IN  ConcatSummary(days(dates), address_totals, <<grand_total_row>>)

\* line 212-351: calculate_daily_summary(df, addresses); addresses = <<>>
\* stands for None or an empty list
calculate_daily_summary(df, addresses) ==
    LET df_copy == SelectSeq(df, LAMBDA r : r.Timestamp # NaT)   \* line 220
    IN  IF df = <<>> \/ df_copy = <<>> THEN <<>>
        ELSE IF is_mp_fees_only_selected(addresses) THEN FeeSummary(df_copy)
        ELSE IF addresses # <<>> /\ Len(addresses) > 1 THEN MultiSummary(df_copy)
        ELSE StandardSummary(df_copy)

\* line 439: the summary of the table of one address
Summarize ==
    /\ pd_pc = "done"
    /\ pd_pc' = "summarized"
    /\ pd_summary' = calculate_daily_summary(pd_df, <<pd_target_address>>)
    /\ UNCHANGED <<fetch_vars, rq_vars, pd_transactions, pd_target_address, pd_df,
                   pd_metrics, pd_addresses>>

NextProcess == ProcessData \/ Summarize

SpecProcess == InitProcess /\ [][NextProcess]_vars

(* --------------------- handle_results and download_csv ------------------ *)
\* What fetch_transactions can return for one address: operations of the
\* window with some other party "A": received on the first or on the second
\* day, or sent on the first day.
RequestRecords(a) ==
    {[timestamp |-> <<0, 0>>, amount |-> 2, sender |-> "A", target |-> a],
     [timestamp |-> <<1, 0>>, amount |-> 2, sender |-> "A", target |-> a],
     [timestamp |-> <<0, 0>>, amount |-> 2, sender |-> a, target |-> "A"]}

Fetchable(a) == UNION {[1..k -> RequestRecords(a)] : k \in 0..MaxFetched}

Ledgers == {[a \in Addresses |-> IF a = "X" THEN x ELSE f] :
               x \in Fetchable("X"), f \in Fetchable("F")}

\* two ledgers for the concurrency specification
SampleLedgers ==
    {[a \in Addresses |->
        IF a = "X"
        THEN <<[timestamp |-> <<0, 0>>, amount |-> 2, sender |-> "A", target |-> "X"],
               [timestamp |-> <<1, 0>>, amount |-> 2, sender |-> "X", target |-> "A"]>>
        ELSE <<[timestamp |-> <<0, 0>>, amount |-> 2, sender |-> "A", target |-> "F"]>>],
     [a \in Addresses |->
        IF a = "X"
        THEN <<>>
        ELSE <<[timestamp |-> <<0, 0>>, amount |-> 2, sender |-> "A", target |-> "F"],
               [timestamp |-> <<1, 0>>, amount |-> 2, sender |-> "A", target |-> "F"]>>]}

\* The address list a request carries (for handle_results after address_map,
\* line 382-387; for download_csv the pieces of the 'addresses' parameter, the
\* empty list for an absent or empty parameter) and the state of its two
\* dates: "missing", "invalid" (not a date), "inverted" (start >= end) or "ok".
Selections == UNION {[1..k -> Addresses] : k \in 0..MaxSelected}
Forms == [entry : {"results", "download"},
          addresses : Selections,
          dates : {"ok", "missing", "invalid", "inverted"}]

FetchIdle ==
    /\ store = <<>>
    /\ pc = "idle"
    /\ all_transactions = <<>>
    /\ last_id = NoId
    /\ page_count = 0
    /\ total_retries = 0
    /\ retry_count = 0
    /\ success = FALSE
    /\ transactions = <<>>
    /\ requests = <<>>
    /\ served = <<>>
    /\ outcome = "none"
    /\ slept = 0
    /\ all429 = TRUE
    /\ raised = FALSE
    /\ completed = <<>>

RqStart(forms) ==
    /\ rq_pc = [r \in Requests |-> IF forms[r] = NoForm THEN "idle" ELSE "start"]
    /\ rq_form = forms
    /\ rq_addresses_to_fetch = [r \in Requests |-> <<>>]
    /\ rq_fetched = [r \in Requests |-> <<>>]
    /\ rq_all_processed_dfs = [r \in Requests |-> <<>>]
    /\ rq_all_metrics = [r \in Requests |-> <<>>]
    /\ rq_response = [r \in Requests |-> NoResponse]

\* one request; the ledger holds operations for the addresses the request
\* names, and is empty for a request that is not valid
InitRequest ==
    /\ FetchIdle
    /\ PdIdle
    /\ \E form \in Forms :
          /\ RqStart([r \in Requests |-> IF r = 1 THEN form ELSE NoForm])
          /\ IF form.dates = "ok" /\ form.addresses # <<>>
             THEN /\ ledger \in Ledgers
                  /\ \A a \in Addresses :
                        (\A i \in 1..Len(form.addresses) : form.addresses[i] # a)
                            => ledger[a] = <<>>
             ELSE ledger = EmptyLedger

\* line 390: list(set(addresses_to_fetch)): the distinct addresses, in the
\* order the set happens to iterate
Deduplicated(addresses) ==
    LET distinct == {addresses[i] : i \in 1..Len(addresses)}
        n == Cardinality(distinct)
    IN  {order \in [1..n -> distinct] :
            \A i, j \in 1..n : i # j => order[i] # order[j]}

Respond(r, response) ==
    /\ rq_response' = [rq_response EXCEPT ![r] = response]
    /\ rq_pc' = [rq_pc EXCEPT ![r] = "done"]

\* line 363-409: handle_results up to the loop over the addresses
ValidateResults(r) ==
    /\ rq_pc[r] = "start"
    /\ rq_form[r].entry = "results"
    /\ \E order \in Deduplicated(rq_form[r].addresses) :
          IF order = <<>>
          THEN /\ Respond(r, [NoResponse EXCEPT !.status = "error"])
               /\ UNCHANGED rq_addresses_to_fetch
          ELSE IF rq_form[r].dates # "ok"
          THEN /\ Respond(r, [NoResponse EXCEPT !.status = "error"])
               /\ rq_addresses_to_fetch' =
                     [rq_addresses_to_fetch EXCEPT ![r] = order]
          ELSE /\ rq_addresses_to_fetch' =
                     [rq_addresses_to_fetch EXCEPT ![r] = order]
               /\ rq_pc' = [rq_pc EXCEPT ![r] = "loop"]
               /\ UNCHANGED rq_response
    /\ UNCHANGED <<fetch_vars, pd_vars, ledger, rq_form, rq_fetched,
                   rq_all_processed_dfs, rq_all_metrics>>

\* line 573-586: download_csv up to the loop over the addresses
ValidateDownload(r) ==
    /\ rq_pc[r] = "start"
    /\ rq_form[r].entry = "download"
    /\ IF rq_form[r].addresses = <<>> \/ rq_form[r].dates = "missing"
       THEN /\ Respond(r, [NoResponse EXCEPT !.status = "400"])
            /\ UNCHANGED rq_addresses_to_fetch
       ELSE /\ rq_addresses_to_fetch' =
                  [rq_addresses_to_fetch EXCEPT ![r] = rq_form[r].addresses]
            /\ rq_pc' = [rq_pc EXCEPT ![r] = "loop"]
            /\ UNCHANGED rq_response
    /\ UNCHANGED <<fetch_vars, pd_vars, ledger, rq_form, rq_fetched,
                   rq_all_processed_dfs, rq_all_metrics>>

\* mutant: the list of tables is one list shared by the requests
FetchAndProcess_SharedTables(r) ==
    /\ rq_pc[r] = "loop"
    /\ Len(rq_fetched[r]) < Len(rq_addresses_to_fetch[r])
    /\ LET address == rq_addresses_to_fetch[r][Len(rq_fetched[r]) + 1]
           raw_transactions == ledger[address]
       IN  /\ rq_fetched' = [rq_fetched EXCEPT ![r] = Append(@, address)]
           /\ \E out \in process_data(raw_transactions, address) :
                 /\ rq_all_processed_dfs' =
                       [q \in Requests |-> Append(rq_all_processed_dfs[q], out.df)]
                 /\ rq_all_metrics' =
                       IF rq_form[r].entry = "results"
                       THEN [rq_all_metrics EXCEPT ![r] =
                               [a \in DOMAIN @ \cup {address} |->
                                   IF a = address THEN out.metrics ELSE @[a]]]
                       ELSE rq_all_metrics
    /\ UNCHANGED <<fetch_vars, pd_vars, ledger, rq_pc, rq_form,
                   rq_addresses_to_fetch, rq_response>>

\* line 416-423 and 588-594: one iteration of the loop over the addresses:
\* fetch, then process; download_csv drops the metrics
FetchAndProcess(r) ==
    /\ rq_pc[r] = "loop"
    /\ Len(rq_fetched[r]) < Len(rq_addresses_to_fetch[r])
    /\ LET address == rq_addresses_to_fetch[r][Len(rq_fetched[r]) + 1]
           raw_transactions == ledger[address]
       IN  /\ rq_fetched' = [rq_fetched EXCEPT ![r] = Append(@, address)]
           /\ \E out \in process_data(raw_transactions, address) :
                 /\ rq_all_processed_dfs' =
                       [rq_all_processed_dfs EXCEPT ![r] = Append(@, out.df)]
                 /\ rq_all_metrics' =
                       IF rq_form[r].entry = "results"
                       THEN [rq_all_metrics EXCEPT ![r] =
                               [a \in DOMAIN @ \cup {address} |->
                                   IF a = address THEN out.metrics ELSE @[a]]]
                       ELSE rq_all_metrics
    /\ UNCHANGED <<fetch_vars, pd_vars, ledger, rq_pc, rq_form,
                   rq_addresses_to_fetch, rq_response>>

\* pd.concat(all_processed_dfs, ignore_index=True)
RECURSIVE concat(_)
concat(dfs) == IF dfs = <<>> THEN <<>> ELSE Head(dfs) \o concat(Tail(dfs))

\* sum(m['earned_xtz'] for m in all_metrics.values())
RECURSIVE SumEarned(_, _)
SumEarned(all_metrics, keys) ==
    IF keys = {} THEN 0
    ELSE LET k == CHOOSE a \in keys : TRUE
         IN  all_metrics[k].earned_xtz + SumEarned(all_metrics, keys \ {k})

\* mutant: only the last address's earnings are reported
OverallMetrics_LastEarned(combined_transactions_df, all_metrics) ==
    [trades |-> Len(combined_transactions_df),
     volume_xtz |-> Sum(Column(combined_transactions_df, "AmountXTZ")),
     earned_xtz |-> IF combined_transactions_df = <<>> THEN 0
                    ELSE all_metrics[Last(combined_transactions_df).Address].earned_xtz]

\* line 429-436
OverallMetrics(combined_transactions_df, all_metrics) ==
    [trades |-> Len(combined_transactions_df),
     volume_xtz |-> Sum(Column(combined_transactions_df, "AmountXTZ")),
     earned_xtz |-> SumEarned(all_metrics, DOMAIN all_metrics)]

\* line 426-439 and 506-562: handle_results after the loop
MergeResults(r) ==
    /\ rq_pc[r] = "loop"
    /\ rq_form[r].entry = "results"
    /\ Len(rq_fetched[r]) = Len(rq_addresses_to_fetch[r])
    /\ LET combined_transactions_df == concat(rq_all_processed_dfs[r])
       IN  Respond(r, [status |-> "results",
                       transactions |-> combined_transactions_df,
                       overall_metrics |->
                           OverallMetrics(combined_transactions_df, rq_all_metrics[r]),
                       daily_summary |->
                           calculate_daily_summary(combined_transactions_df,
                                                   rq_addresses_to_fetch[r])])
    /\ UNCHANGED <<fetch_vars, pd_vars, ledger, rq_form, rq_addresses_to_fetch,
                   rq_fetched, rq_all_processed_dfs, rq_all_metrics>>

\* line 597-639: download_csv after the loop, for each <type> of the URL
MergeDownload(r) ==
    /\ rq_pc[r] = "loop"
    /\ rq_form[r].entry = "download"
    /\ Len(rq_fetched[r]) = Len(rq_addresses_to_fetch[r])
    /\ LET transactions_df == concat(rq_all_processed_dfs[r])
           daily_summary_df == calculate_daily_summary(transactions_df,
                                                       rq_addresses_to_fetch[r])
       IN  \E type \in {"transactions", "daily_summary", "other"} :
              IF type = "transactions"
              THEN IF transactions_df = <<>>
                   THEN Respond(r, [NoResponse EXCEPT !.status = "404"])
                   ELSE Respond(r, [NoResponse EXCEPT !.status = "csv",
                                                      !.transactions = transactions_df])
              ELSE IF type = "daily_summary"
              THEN IF daily_summary_df = <<>>
                   THEN Respond(r, [NoResponse EXCEPT !.status = "404"])
                   ELSE Respond(r, [NoResponse EXCEPT !.status = "csv",
                                                      !.daily_summary = daily_summary_df])
              ELSE Respond(r, [NoResponse EXCEPT !.status = "400"])
    /\ UNCHANGED <<fetch_vars, pd_vars, ledger, rq_form, rq_addresses_to_fetch,
                   rq_fetched, rq_all_processed_dfs, rq_all_metrics>>

NextRequest ==
    \E r \in Requests :
        \/ ValidateResults(r)
        \/ ValidateDownload(r)
        \/ FetchAndProcess(r)
        \/ MergeResults(r)
        \/ MergeDownload(r)

SpecRequest == InitRequest /\ [][NextRequest]_vars

\* two requests in flight at once (the server handles each request in its
\* own thread), both past validation, over one of the sample ledgers
InitConcurrent ==
    /\ FetchIdle
    /\ PdIdle
    /\ ledger \in SampleLedgers
    /\ \E forms \in [Requests -> {f \in Forms : f.dates = "ok" /\ f.addresses # <<>>}] :
          RqStart(forms)

SpecConcurrent == InitConcurrent /\ [][NextRequest]_vars

(* ------------------ calculate_daily_summary called by itself ------------ *)
\* The function applied to a combined table and to any address list, the
\* empty list (which also stands for None) included: the table is the
\* concatenation of what process_data returns for the two addresses.
InitSummary ==
    /\ FetchIdle
    /\ RqIdle
    /\ pd_pc = "summary"
    /\ pd_transactions = <<>>
    /\ pd_target_address = NoAddress
    /\ pd_metrics = NoMetrics
    /\ pd_summary = <<>>
    /\ pd_addresses \in Selections
    /\ \E l \in Ledgers :
          \E x \in process_data(l["X"], "X"), f \in process_data(l["F"], "F") :
              pd_df = x.df \o f.df

\* line 212-351: the call calculate_daily_summary(df, addresses)
SummaryCall ==
    /\ pd_pc = "summary"
    /\ pd_pc' = "returned"
    /\ pd_summary' = calculate_daily_summary(pd_df, pd_addresses)
    /\ UNCHANGED <<fetch_vars, rq_vars, pd_transactions, pd_target_address, pd_df,
                   pd_metrics, pd_addresses>>

NextSummary == SummaryCall

SpecSummary == InitSummary /\ [][NextSummary]_vars

\* C20: retry_count never exceeds MAX_RETRIES, and no page (the page a
\* cursor designates) is requested more than MAX_RETRIES times in one call.
C20_PerPageAttemptBound ==
    /\ retry_count <= MAX_RETRIES
    /\ \A i \in 1..Len(requests) : Asked(requests[i]) <= MAX_RETRIES

\* C21: after a 429, another HTTP error, a transport failure or a malformed
\* body, a backoff that is slept lasts RETRY_DELAY seconds times the number
\* of the retry it precedes, and it is slept only when the retry loop goes on
\* to send that retry.
C21_LinearBackoff ==
    (outcome \in {"429", "error", "transport", "badjson"} /\ slept > 0) =>
        /\ slept = RETRY_DELAY * 1000 * retry_count
        /\ ~success /\ retry_count < MAX_RETRIES

(* ------------------------ properties of process_data ------------------- *)
RECURSIVE SumAmounts(_)
\* the sum of AmountXTZ over the rows of a table
SumAmounts(rows) ==
    IF rows = <<>> THEN 0 ELSE Head(rows).AmountXTZ + SumAmounts(Tail(rows))

IsIn(row) == row.Direction = "IN"

\* C8: the metrics agree with the table: trades is the number of rows, volume
\* the sum of the amounts of all rows, earned the sum of the amounts of the
\* rows whose direction is IN.
C8_MetricsAgreeWithTable ==
    pd_pc = "done" =>
        /\ pd_metrics.trades = Len(pd_df)
        /\ pd_metrics.volume_xtz = SumAmounts(pd_df)
        /\ pd_metrics.earned_xtz = SumAmounts(SelectSeq(pd_df, IsIn))

C8_Witness ==
    /\ pd_pc = "done"
    /\ Len(pd_df) = 2
    /\ pd_metrics.volume_xtz > pd_metrics.earned_xtz
    /\ pd_metrics.earned_xtz > 0

\* C9: a row labelled IN has To equal to the origin address, a row labelled
\* OUT has From equal to the origin address.
C9_DirectionMatchesParties ==
    pd_pc = "done" =>
        \A i \in 1..Len(pd_df) :
            /\ pd_df[i].Direction = "IN" => pd_df[i].To = pd_target_address
            /\ pd_df[i].Direction = "OUT" => pd_df[i].From = pd_target_address

C9_Witness ==
    /\ pd_pc = "done"
    /\ \E i, j \in 1..Len(pd_df) :
          pd_df[i].Direction = "IN" /\ pd_df[j].Direction = "OUT"

\* C10 (as claimed): a record whose sender and target both equal the origin
\* address is labelled OUT or UNKNOWN, not IN; a record in which neither
\* equals the origin address is labelled UNKNOWN.
C10_OutFirst ==
    pd_pc = "done" =>
        \A i \in 1..Len(pd_df) :
            /\ (pd_df[i].From = pd_target_address /\ pd_df[i].To = pd_target_address)
                   => pd_df[i].Direction \in {"OUT", "UNKNOWN"}
            /\ (pd_df[i].From # pd_target_address /\ pd_df[i].To # pd_target_address)
                   => pd_df[i].Direction = "UNKNOWN"

\* C10 (amended): a record whose sender and target both equal the origin
\* address is labelled IN (the incoming test comes first); a record in which
\* neither equals the origin address is labelled UNKNOWN.
C10_InFirst ==
    pd_pc = "done" =>
        \A i \in 1..Len(pd_df) :
            /\ (pd_df[i].From = pd_target_address /\ pd_df[i].To = pd_target_address)
                   => pd_df[i].Direction = "IN"
            /\ (pd_df[i].From # pd_target_address /\ pd_df[i].To # pd_target_address)
                   => pd_df[i].Direction = "UNKNOWN"

C10_Witness ==
    /\ pd_pc = "done"
    /\ \E i, j \in 1..Len(pd_df) :
          /\ pd_df[i].From = pd_target_address /\ pd_df[i].To = pd_target_address
          /\ pd_df[j].From # pd_target_address /\ pd_df[j].To # pd_target_address

(* ------------------- process_data + calculate_daily_summary ------------ *)
DayRows(summary) ==
    LET isDay(r) == r.Date # TOTAL /\ r.Date # GRAND_TOTAL
    IN  SelectSeq(summary, isDay)

\* the rows process_data builds, in the order of the raw list (before line 203)
RowsInInputOrder ==
    ProcessLoop([processed_data |-> <<>>, trade_count |-> 0,
                 total_volume_mutez |-> 0, total_earned_mutez |-> 0],
                pd_transactions, pd_target_address).processed_data

\* C13: in single-address standard mode the XTZ_Received of the day rows add
\* up to metrics.earned, and so does the XTZ_Received of the TOTAL row, for
\* every raw list, also with UNKNOWN-direction and dropped records.
C13_DailyRoundTrip ==
    pd_pc = "summarized" =>
        /\ Sum(Column(DayRows(pd_summary), "XTZ_Received")) = pd_metrics.earned_xtz
        /\ pd_summary # <<>> =>
              /\ Last(pd_summary).Date = TOTAL
              /\ Last(pd_summary).XTZ_Received = pd_metrics.earned_xtz

C13_Witness ==
    /\ pd_pc = "summarized"
    /\ pd_metrics.earned_xtz > 0
    /\ Len(pd_df) < Len(pd_transactions)

\* C18: process_data followed by calculate_daily_summary is a function of the
\* raw list: whatever order the sort gives to rows of one timestamp, the
\* summary is the one the rows give in the order of the raw list, so two runs
\* on one input yield the same summary.
C18_SummaryIndependentOfTieOrder ==
    pd_pc = "summarized" =>
        pd_summary = calculate_daily_summary(RowsInInputOrder, <<pd_target_address>>)

C18_Witness ==
    /\ pd_pc = "summarized"
    /\ pd_df # RowsInInputOrder
    /\ \E i, j \in 1..Len(pd_df) :
          /\ i # j
          /\ pd_df[i].Timestamp = pd_df[j].Timestamp
          /\ pd_df[i].Direction = "IN"
          /\ pd_df[j].Direction = "IN"
          /\ pd_df[i].AmountXTZ # pd_df[j].AmountXTZ

(* ------------- properties of handle_results and download_csv ----------- *)
\* the summary table a finished request returned (empty when it returned none)
SummaryOf(r) == rq_response[r].daily_summary
MultiMode(r) == Len(rq_addresses_to_fetch[r]) > 1
FeeMode(r) == rq_addresses_to_fetch[r] = <<mp_fees_address>>

AddressTotals(summary) ==
    LET isTotal(row) == row.Date = TOTAL IN SelectSeq(summary, isTotal)
GrandTotals(summary) ==
    LET isGrand(row) == row.Date = GRAND_TOTAL IN SelectSeq(summary, isGrand)

\* C11: the Transactions of a TOTAL row is the sum of the Transactions of the
\* day rows it totals (of all day rows in the single-address modes, of the day
\* rows of its address in multi-address mode), and the Transactions of the
\* GRAND TOTAL row is the sum of those of the per-address TOTAL rows.
C11_RollupCounts ==
    \A r \in Requests :
        SummaryOf(r) # <<>> =>
            IF MultiMode(r)
            THEN /\ \A i \in 1..Len(AddressTotals(SummaryOf(r))) :
                       LET total == AddressTotals(SummaryOf(r))[i]
                       IN  total.Transactions =
                              Sum(Column(OfAddress(DayRows(SummaryOf(r)), total.Address),
                                         "Transactions"))
                 /\ \A i \in 1..Len(GrandTotals(SummaryOf(r))) :
                       GrandTotals(SummaryOf(r))[i].Transactions =
                          Sum(Column(AddressTotals(SummaryOf(r)), "Transactions"))
            ELSE Last(SummaryOf(r)).Transactions =
                    Sum(Column(DayRows(SummaryOf(r)), "Transactions"))

\* C12: in fee-only mode the Total_Volume of every day row and of the TOTAL
\* row is its Skurpy_Cut divided by 0.03, rounded to whole millionths.
C12_VolumeFromCut ==
    \A r \in Requests :
        FeeMode(r) =>
            \A i \in 1..Len(SummaryOf(r)) :
                SummaryOf(r)[i].Total_Volume = DivideByFee(SummaryOf(r)[i].Skurpy_Cut)

\* C14: within one request no address is fetched (and processed) twice,
\* however often the request names it.
C14_EachAddressOnce ==
    \A r \in Requests :
        \A i, j \in 1..Len(rq_fetched[r]) :
            rq_fetched[r][i] = rq_fetched[r][j] => i = j

InvalidForm(form) == form.addresses = <<>> \/ form.dates # "ok"

\* C15: the overall metrics of a results page roll up the per-address ones:
\* trades is the number of rows of the combined table and the sum of the
\* per-address trades, volume and earned are the sums of the per-address
\* volumes and earnings.
C15_OverallIsRollup ==
    \A r \in Requests :
        rq_response[r].status = "results" =>
            LET overall == rq_response[r].overall_metrics
                per == rq_all_metrics[r]
                list == rq_addresses_to_fetch[r]
                column(f) == [i \in 1..Len(list) |-> per[list[i]][f]]
            IN  /\ DOMAIN per = {list[i] : i \in 1..Len(list)}
                /\ overall.trades = Len(rq_response[r].transactions)
                /\ overall.trades = Sum(column("trades"))
                /\ overall.volume_xtz = Sum(column("volume_xtz"))
                /\ overall.earned_xtz = Sum(column("earned_xtz"))

C15_Witness ==
    /\ rq_response[1].status = "results"
    /\ Len(rq_addresses_to_fetch[1]) = 2
    /\ \A a \in Addresses : rq_all_metrics[1][a].trades > 0
    /\ rq_response[1].overall_metrics.earned_xtz > rq_all_metrics[1]["X"].earned_xtz
    /\ rq_response[1].overall_metrics.volume_xtz > rq_response[1].overall_metrics.earned_xtz

\* C16: a request with no address, with a missing or invalid date, or with
\* start >= end is answered without any call of fetch_transactions.
C16_ValidationBeforeFetch ==
    \A r \in Requests : InvalidForm(rq_form[r]) => rq_fetched[r] = <<>>

\* C17 as claimed: a multi-address summary holds exactly one TOTAL row for
\* each address of the list, also for one without transactions, and exactly
\* one GRAND TOTAL row.
C17_TotalRowPerSelected ==
    \A r \in Requests :
        (rq_response[r].status \in {"results", "csv"} /\ MultiMode(r)
            /\ (rq_form[r].entry = "download" => SummaryOf(r) # <<>>)) =>
            /\ \A i \in 1..Len(rq_addresses_to_fetch[r]) :
                  Len(OfAddress(AddressTotals(SummaryOf(r)),
                                rq_addresses_to_fetch[r][i])) = 1
            /\ Len(GrandTotals(SummaryOf(r))) = 1

\* C17 amended: a multi-address summary that is not empty holds exactly one
\* TOTAL row for each address that has a row in the combined table, none for
\* any other address, and exactly one GRAND TOTAL row; an empty combined
\* table gives an empty summary.
C17_TotalRowPerPresent ==
    \A r \in Requests :
        (rq_response[r].status \in {"results", "csv"} /\ MultiMode(r)) =>
            LET combined == concat(rq_all_processed_dfs[r])
            IN  /\ (rq_response[r].status = "results" /\ combined = <<>>) =>
                      SummaryOf(r) = <<>>
                /\ SummaryOf(r) # <<>> =>
                      /\ \A a \in Addresses :
                            Len(OfAddress(AddressTotals(SummaryOf(r)), a)) =
                               IF OfAddress(combined, a) # <<>> THEN 1 ELSE 0
                      /\ Len(GrandTotals(SummaryOf(r))) = 1

C17_Witness ==
    /\ rq_response[1].status = "results"
    /\ MultiMode(1)
    /\ OfAddress(rq_response[1].transactions, "X") # <<>>
    /\ OfAddress(rq_response[1].transactions, "F") = <<>>
    /\ Len(AddressTotals(SummaryOf(1))) = 1

(* ------------------------ two requests at once ------------------------- *)
\* C19: whatever the interleaving of the steps of two requests, each request
\* holds, and returns, what it computes from its own address list and the
\* provider's data alone: its i-th table and metrics are those of its i-th
\* address, and its response is built from its own tables and metrics.
C19_RequestsDoNotInterfere ==
    \A r \in Requests :
        LET list == rq_addresses_to_fetch[r]
            own == concat(rq_all_processed_dfs[r])
        IN  /\ Len(rq_all_processed_dfs[r]) = Len(rq_fetched[r])
            /\ \A i \in 1..Len(rq_fetched[r]) :
                  /\ rq_fetched[r][i] = list[i]
                  /\ \E out \in process_data(ledger[list[i]], list[i]) :
                        /\ rq_all_processed_dfs[r][i] = out.df
                        /\ rq_form[r].entry = "results" =>
                              rq_all_metrics[r][list[i]] = out.metrics
            /\ rq_response[r].status = "results" =>
                  /\ rq_response[r].transactions = own
                  /\ rq_response[r].overall_metrics =
                        OverallMetrics(own, rq_all_metrics[r])
                  /\ SummaryOf(r) = calculate_daily_summary(own, list)
            /\ rq_response[r].status = "csv" =>
                  \/ rq_response[r].transactions = own /\ SummaryOf(r) = <<>>
                  \/ /\ rq_response[r].transactions = <<>>
                     /\ SummaryOf(r) = calculate_daily_summary(own, list)

\* both requests are in the middle of their loops, over different lists
C19_Witness ==
    /\ \A r \in Requests :
          /\ rq_pc[r] = "loop"
          /\ Len(rq_addresses_to_fetch[r]) = 2
          /\ Len(rq_fetched[r]) = 1
          /\ rq_all_processed_dfs[r][1] # <<>>
    /\ rq_addresses_to_fetch[1] # rq_addresses_to_fetch[2]

(* -------------------- properties of the summary modes ------------------ *)
\* the mode a returned summary shows by its columns
ModeOf(summary) ==
    IF "Skurpy_Cut" \in DOMAIN summary[1] THEN "fee"
    ELSE IF "Address" \in DOMAIN summary[1] THEN "multi"
    ELSE "standard"

\* C22: the mode of a summary follows from the address list alone, and every
\* list has exactly one: fee-derived volume iff the list is the fee address
\* alone, multi-address iff it has more than one element, standard otherwise
\* (one other address, or the empty list / no list); and all rows of one
\* summary are of that one mode.
C22_ModeSelection ==
    (pd_pc = "returned" /\ pd_df # <<>>) =>
        /\ pd_summary # <<>>
        /\ \A i \in 1..Len(pd_summary) : DOMAIN pd_summary[i] = DOMAIN pd_summary[1]
        /\ ModeOf(pd_summary) = "fee" <=>
              (Len(pd_addresses) = 1 /\ pd_addresses[1] = mp_fees_address)
        /\ ModeOf(pd_summary) = "multi" <=> Len(pd_addresses) > 1
        /\ ModeOf(pd_summary) = "standard" <=>
              (Len(pd_addresses) = 0
                  \/ (Len(pd_addresses) = 1 /\ pd_addresses[1] # mp_fees_address))

\* a summary in standard mode for the empty list, over rows of both addresses
C22_Witness ==
    /\ pd_pc = "returned"
    /\ pd_addresses = <<>>
    /\ OfAddress(pd_df, "X") # <<>>
    /\ OfAddress(pd_df, mp_fees_address) # <<>>
    /\ ModeOf(pd_summary) = "standard"

RowRank(row) ==
    IF row.Date = GRAND_TOTAL THEN 2 ELSE IF row.Date = TOTAL THEN 1 ELSE 0

\* C23: in a multi-address summary every day row comes before every
\* per-address TOTAL row, every per-address TOTAL row before the GRAND TOTAL
\* row, and the GRAND TOTAL row is the last row and has a blank address.
C23_MultiRowOrder ==
    (pd_pc = "returned" /\ Len(pd_addresses) > 1 /\ pd_summary # <<>>) =>
        /\ \A i, j \in 1..Len(pd_summary) :
              i < j => RowRank(pd_summary[i]) <= RowRank(pd_summary[j])
        /\ \A i \in 1..Len(pd_summary) :
              pd_summary[i].Date = GRAND_TOTAL => i = Len(pd_summary)
        /\ Last(pd_summary).Date = GRAND_TOTAL
        /\ Last(pd_summary).Address = BlankAddress

C23_Witness ==
    /\ pd_pc = "returned"
    /\ Len(pd_addresses) > 1
    /\ Len(DayRows(pd_summary)) >= 2
    /\ Len(AddressTotals(pd_summary)) = 2
    /\ Len(GrandTotals(pd_summary)) = 1

(* -------------------- data-quality drop in process_data ---------------- *)
\* a record whose timestamp is present and denotes an instant
Parsable(tx) == tx.timestamp \in TsStrings

\* C24: process_data keeps exactly the records whose timestamp is present and
\* can be parsed, one row each, and counts only those in trades, volume and
\* earned; a record without timestamp or with an unparsable one leaves no
\* row and no trace in the metrics; an empty input gives an empty table and
\* zero metrics.
C24_DataQualityDrop ==
    pd_pc \in {"done", "summarized"} =>
        LET good == SelectSeq(pd_transactions, Parsable)
            amount(tx) == IF tx.amount = NoAmount THEN 0 ELSE tx.amount
            amounts == [i \in 1..Len(good) |-> amount(good[i])]
            received == [i \in 1..Len(good) |->
                            IF good[i].target = pd_target_address
                            THEN amount(good[i]) ELSE 0]
        IN  /\ Len(pd_df) = Len(good)
            /\ pd_metrics.trades = Len(good)
            /\ pd_metrics.volume_xtz = Sum(amounts)
            /\ pd_metrics.earned_xtz = Sum(received)
            /\ pd_transactions = <<>> => pd_df = <<>> /\ pd_metrics = NoMetrics

====
